---- MODULE Spec2Model ----
(***************************************************************************)
(* A model of the two Triton tutorial notebooks of the repository:        *)
(*   - the libdevice notebook (asin_kernel and its two launches),          *)
(*   - the block-pointer notebook (matmul_kernel_with_block_pointers, the  *)
(*     host wrapper matmul and the autotune decorator).                    *)
(* A kernel launch is a grid of programs; every program is a process that  *)
(* runs the kernel body on its own program id, and the programs of a grid  *)
(* interleave freely (the kernels do not synchronise).                     *)
(* Tensors are flat buffers addressed through strides; floating point      *)
(* samples are fixed-point integers that fp16 and fp32 hold exactly.       *)
(***************************************************************************)
EXTENDS Integers, Sequences, FiniteSets, TLC

(* ------------------------------ bounds -------------------------------- *)
\* largest n_elements of an asin launch (the notebook uses 98432)
MaxSize == 4
\* largest BLOCK_SIZE of an asin launch (the notebook uses 1024)
MaxBlock == 2
\* the patterns the input data of a run are drawn from
Seeds == {0, 1}
\* the stale contents a buffer that torch.empty leaves unset may hold
StaleFills == {-1, -2}

(* ------------------------------- state -------------------------------- *)
VARIABLES
    notebook,       \* which notebook runs: "libdevice", "block_pointer", ...
    n_elements,     \* output_torch.numel()
    BLOCK_SIZE,     \* the constexpr of the asin launch
    x,              \* the input buffer
    output_triton,  \* the output buffer of the current launch
    run,            \* 1: the default-libdevice cell, 2: the custom-path cell
    output_first,   \* output_triton as the first launch left it
    asin_pc,        \* program id -> "load" | "store" | "done"
    asin_x,         \* program id -> lane -> the value the program holds
    x_loads,        \* <<program id, offset>> of every element loaded from x
    y_stores,       \* <<program id, offset>> of every element stored to y
    a, b,           \* the arguments of matmul
    c,              \* the output tensor, NoTensor until allocated
    c_empty,        \* c as torch.empty left it
    mm_state,       \* "call" | "failed" | "launched" | "returned"
    error,          \* the message of the failed assert, "" if none
    M, N, K,        \* the kernel's dimension arguments
    META,           \* the configuration the launch runs with
    mm_pc,          \* program id -> "start" | "computed" | "done"
    prog,           \* program id -> the program's local variables
    c_stores,       \* <<program id, row, col>> of every element stored to C
    pid_map,        \* program id -> what the kernel computes from it
    cache,          \* the autotuner's cache: key -> index of the config, 0 if absent
    searches,       \* shape -> how often the configs were benchmarked for it
    first_choice,   \* shape -> the config selected by its first search, 0 if none
    launch,         \* the last launch: its shape, its config, its grid, ...
    calls           \* the number of matmul calls so far

asin_vars == <<n_elements, BLOCK_SIZE, x, output_triton, run, output_first,
               asin_pc, asin_x, x_loads, y_stores>>

mm_vars == <<a, b, c, c_empty, mm_state, error, M, N, K, META, mm_pc, prog, c_stores>>

at_vars == <<cache, searches, first_choice, launch, calls>>

vars == <<notebook, asin_vars, mm_vars, pid_map, at_vars>>

(* ------------------------------ helpers ------------------------------- *)
\* triton.cdiv / tl.cdiv
cdiv(p, q) == (p + q - 1) \div q

Min(p, q) == IF p <= q THEN p ELSE q

\* what a read or write outside a buffer meets: memory the tensor does not own
OutOfBuffer == -999

\* a read of address addr of a flat buffer
MemRead(buf, addr) == IF addr \in DOMAIN buf THEN buf[addr] ELSE OutOfBuffer

\* the content torch.empty / torch.empty_like leaves in a fresh buffer of n cells
Uninitialised(n, g) == [i \in 0 .. n - 1 |-> g]

(* ------------------------- libdevice notebook ------------------------- *)
\* torch.rand samples of [0, 1), in units of 1e-4: 0, 0.25, 0.5, 0.75
Sample(s) == CASE s = 0 -> 0 [] s = 1 -> 2500 [] s = 2 -> 5000 [] OTHER -> 7500

\* tl.math.asin / torch.asin on the samples, in units of 1e-4
asin(v) ==
    CASE v = 0 -> 0
      [] v = 2500 -> 2527
      [] v = 5000 -> 5236
      [] v = 7500 -> 8481
      [] OTHER -> v

\* the grid rounded down: the programs of the full blocks only
asin_grid_floor(n, bs) == n \div bs

\* grid = lambda meta: (triton.cdiv(n_elements, meta['BLOCK_SIZE']), )
asin_grid(n, bs) == cdiv(n, bs)

\* offsets = block_start + tl.arange(0, BLOCK_SIZE), for one lane
asin_offset(pid, lane, bs) == pid * bs + lane

\* a mask that lets the offset n_elements itself through
asin_mask_inclusive(offset, n) == offset <= n

\* a mask that also turns the last element off
asin_mask_short(offset, n) == offset + 1 < n

\* mask = offsets < n_elements
asin_mask(offset, n) == offset < n

\* a lane that the mask turns off holds no element of x; the compiled load
\* leaves its register zeroed, and the value is never stored
MaskedLane == 0

\* x = tl.load(x_ptr + offsets, mask=mask)
AsinLoad(pid) ==
    /\ notebook = "libdevice"
    /\ asin_pc[pid] = "load"
    /\ asin_x' = [asin_x EXCEPT ![pid] =
          [lane \in 0 .. BLOCK_SIZE - 1 |->
              IF asin_mask(asin_offset(pid, lane, BLOCK_SIZE), n_elements)
              THEN MemRead(x, asin_offset(pid, lane, BLOCK_SIZE))
              ELSE MaskedLane]]
    /\ x_loads' = x_loads \cup
          {<<pid, asin_offset(pid, lane, BLOCK_SIZE)>> : lane \in
              {l \in 0 .. BLOCK_SIZE - 1 :
                  asin_mask(asin_offset(pid, l, BLOCK_SIZE), n_elements)}}
    /\ asin_pc' = [asin_pc EXCEPT ![pid] = "store"]
    /\ UNCHANGED <<n_elements, BLOCK_SIZE, x, output_triton, run, output_first,
                   y_stores>>
    /\ UNCHANGED <<notebook, mm_vars, pid_map, at_vars>>

\* x = tl.math.asin(x); tl.store(y_ptr + offsets, x, mask=mask)
AsinStore(pid) ==
    /\ notebook = "libdevice"
    /\ asin_pc[pid] = "store"
    /\ LET lanes == {l \in 0 .. BLOCK_SIZE - 1 :
                        asin_mask(asin_offset(pid, l, BLOCK_SIZE), n_elements)}
           lane_of(i) == CHOOSE l \in lanes : asin_offset(pid, l, BLOCK_SIZE) = i
           written == {asin_offset(pid, l, BLOCK_SIZE) : l \in lanes}
       IN  /\ output_triton' = [i \in DOMAIN output_triton |->
                  IF i \in written THEN asin(asin_x[pid][lane_of(i)])
                  ELSE output_triton[i]]
           /\ y_stores' = y_stores \cup {<<pid, i>> : i \in written}
    /\ asin_pc' = [asin_pc EXCEPT ![pid] = "done"]
    /\ UNCHANGED <<n_elements, BLOCK_SIZE, x, run, output_first, asin_x, x_loads>>
    /\ UNCHANGED <<notebook, mm_vars, pid_map, at_vars>>

AsinLaunchDone == \A p \in DOMAIN asin_pc : asin_pc[p] = "done"

\* the second cell: output_triton = torch.empty_like(x), and the same launch
AsinSecondRun ==
    /\ notebook = "libdevice"
    /\ run = 1
    /\ AsinLaunchDone
    /\ \E g \in StaleFills :
          output_triton' = Uninitialised(n_elements, g)
    /\ output_first' = output_triton
    /\ run' = 2
    /\ asin_pc' = [p \in DOMAIN asin_pc |-> "load"]
    /\ asin_x' = [p \in DOMAIN asin_pc |-> <<>>]
    /\ x_loads' = {}
    /\ y_stores' = {}
    /\ UNCHANGED <<n_elements, BLOCK_SIZE, x>>
    /\ UNCHANGED <<notebook, mm_vars, pid_map, at_vars>>

\* the first cell: x = torch.rand(size), output_triton = torch.zeros(size),
\* asin_kernel[grid](x, output_triton, n_elements, BLOCK_SIZE=...)
AsinInit ==
    /\ n_elements \in 0 .. MaxSize
    /\ BLOCK_SIZE \in 1 .. MaxBlock
    /\ \E seed \in Seeds :
          x = [i \in 0 .. n_elements - 1 |-> Sample((seed + i) % 4)]
    /\ output_triton = [i \in 0 .. n_elements - 1 |-> 0]
    /\ run = 1
    /\ output_first = <<>>
    /\ asin_pc = [p \in 0 .. asin_grid(n_elements, BLOCK_SIZE) - 1 |-> "load"]
    /\ asin_x = [p \in 0 .. asin_grid(n_elements, BLOCK_SIZE) - 1 |-> <<>>]
    /\ x_loads = {}
    /\ y_stores = {}

(* ----------------------- block-pointer notebook ----------------------- *)
\* a tensor is its shape, its strides and its flat storage
RowMajor(rows, cols) == <<cols, 1>>

\* the strides of t.T, where t is a row-major (cols, rows) tensor
Transposed(rows, cols) == <<1, rows>>

\* the logical element (i, j) that the storage cell addr of a dense tensor holds
CellOf(addr, shape, layout) ==
    IF layout = "row_major"
    THEN <<addr \div shape[2], addr % shape[2]>>
    ELSE <<addr % shape[1], addr \div shape[1]>>

\* torch.randn data: every logical element is fixed by the pattern `seed`
AVal(seed, i, k) == 1 + ((seed + i + 2 * k) % 3)
BVal(seed, k, j) == 1 + ((2 * seed + 2 * k + j) % 3)

TensorA(rows, cols, layout, seed) ==
    [shape |-> <<rows, cols>>,
     strides |-> IF layout = "row_major" THEN RowMajor(rows, cols)
                 ELSE Transposed(rows, cols),
     data |-> [addr \in 0 .. rows * cols - 1 |->
                  AVal(seed, CellOf(addr, <<rows, cols>>, layout)[1],
                             CellOf(addr, <<rows, cols>>, layout)[2])]]

TensorB(rows, cols, layout, seed) ==
    [shape |-> <<rows, cols>>,
     strides |-> IF layout = "row_major" THEN RowMajor(rows, cols)
                 ELSE Transposed(rows, cols),
     data |-> [addr \in 0 .. rows * cols - 1 |->
                  BVal(seed, CellOf(addr, <<rows, cols>>, layout)[1],
                             CellOf(addr, <<rows, cols>>, layout)[2])]]

\* no tensor: what c is before matmul allocates it
NoTensor == [shape |-> <<0, 0>>, strides |-> <<0, 1>>, data |-> <<>>]

\* torch.Tensor.is_contiguous for a 2-D tensor: an empty tensor is contiguous,
\* and the stride of an axis of size 1 does not matter
is_contiguous(t) ==
    \/ t.shape[1] * t.shape[2] = 0
    \/ /\ t.shape[2] # 1 => t.strides[2] = 1
       /\ t.shape[1] # 1 => t.strides[1] = t.shape[2]

\* c = torch.empty((M, N), ...): row-major, content unset
torch_empty(rows, cols, g) ==
    [shape |-> <<rows, cols>>, strides |-> RowMajor(rows, cols),
     data |-> Uninitialised(rows * cols, g)]

\* the element (i, j) of a tensor
At(t, i, j) == t.data[i * t.strides[1] + j * t.strides[2]]

RECURSIVE SeqSum(_)
SeqSum(s) == IF s = <<>> THEN 0 ELSE s[1] + SeqSum(Tail(s))

RECURSIVE Fp16Step(_)
\* the spacing of the fp16 values around a magnitude (11 significant bits)
Fp16Step(mag) == IF mag < 2048 THEN 1 ELSE 2 * Fp16Step(mag \div 2)

\* accumulator.to(tl.float16) on an integral fp32 value: round to nearest even
to_float16(v) ==
    LET mag == IF v < 0 THEN -v ELSE v
        step == Fp16Step(mag)
        q == mag \div step
        r == mag % step
        up == (2 * r > step) \/ (2 * r = step /\ q % 2 = 1)
        rounded == (IF up THEN q + 1 ELSE q) * step
    IN  IF v < 0 THEN -rounded ELSE rounded

\* torch.matmul(a, b)[i][j] on fp16 tensors
torch_matmul(ta, tb, i, j) ==
    to_float16(SeqSum([kk \in 1 .. ta.shape[2] |->
                          At(ta, i, kk - 1) * At(tb, kk - 1, j)]))

(* block pointers *)
\* tl.make_block_ptr
make_block_ptr(base, shape, strides, offsets, block_shape, order) ==
    [base |-> base, shape |-> shape, strides |-> strides, offsets |-> offsets,
     block_shape |-> block_shape, order |-> order]

NoPtr == make_block_ptr("", <<0, 0>>, <<0, 0>>, <<0, 0>>, <<0, 0>>, <<1, 0>>)

\* tl.advance
advance(ptr, delta) ==
    [ptr EXCEPT !.offsets = <<ptr.offsets[1] + delta[1], ptr.offsets[2] + delta[2]>>]

Lanes(ptr) == (0 .. ptr.block_shape[1] - 1) \X (0 .. ptr.block_shape[2] - 1)

\* the element of the parent tensor a lane of the block points at
Coords(ptr, lane) == <<ptr.offsets[1] + lane[1], ptr.offsets[2] + lane[2]>>

\* whether the boundary check lets the lane through (axes are 0 and 1)
InBounds(ptr, boundary_check, lane) ==
    \A axis \in boundary_check :
        /\ 0 <= Coords(ptr, lane)[axis + 1]
        /\ Coords(ptr, lane)[axis + 1] < ptr.shape[axis + 1]

Address(ptr, lane) ==
    Coords(ptr, lane)[1] * ptr.strides[1] + Coords(ptr, lane)[2] * ptr.strides[2]

\* the lanes of a boundary-checked load that the check masks read nothing; the
\* compiled load leaves their registers zeroed (no padding_option is passed)
PadValue == 0

\* tl.load(block_ptr, boundary_check=...)
load(ptr, boundary_check, mem) ==
    [lane \in Lanes(ptr) |->
        IF InBounds(ptr, boundary_check, lane)
        THEN MemRead(mem, Address(ptr, lane))
        ELSE PadValue]

\* the elements of the parent tensor a load or store of the block touches
Touched(ptr, boundary_check) ==
    {Coords(ptr, lane) : lane \in
        {l \in Lanes(ptr) : InBounds(ptr, boundary_check, l)}}

\* tl.store(block_ptr, value, boundary_check=...)
store(ptr, value, boundary_check, mem) ==
    LET live == {l \in Lanes(ptr) : InBounds(ptr, boundary_check, l)}
    IN  [addr \in DOMAIN mem |->
            IF \E l \in live : Address(ptr, l) = addr
            THEN value[CHOOSE l \in live : Address(ptr, l) = addr]
            ELSE mem[addr]]

\* tl.dot(a, b) of a (bm, bk) block and a (bk, bn) block
dot(blk_a, blk_b, bm, bn, bk) ==
    [lane \in (0 .. bm - 1) \X (0 .. bn - 1) |->
        SeqSum([kk \in 1 .. bk |->
                   blk_a[<<lane[1], kk - 1>>] * blk_b[<<kk - 1, lane[2]>>]])]

\* tl.zeros((bm, bn), dtype=tl.float32)
zeros(bm, bn) == [lane \in (0 .. bm - 1) \X (0 .. bn - 1) |-> 0]

\* a load that checks the rows only
LoadCheckRowsOnly == {0}

\* the boundary_check argument of the loads and of the store
LoadCheck == {0, 1}
StoreCheck == {0, 1}

\* the grouped mapping without the min that shortens the last group
GroupedPidNoMin(pid, m, n, meta) ==
    LET num_pid_m == cdiv(m, meta.BLOCK_SIZE_M)
        num_pid_n == cdiv(n, meta.BLOCK_SIZE_N)
        num_pid_in_group == meta.GROUP_SIZE_M * num_pid_n
        group_id == pid \div num_pid_in_group
        first_pid_m == group_id * meta.GROUP_SIZE_M
        group_size_m == meta.GROUP_SIZE_M
    IN  [num_pid_m |-> num_pid_m, num_pid_n |-> num_pid_n,
         first_pid_m |-> first_pid_m, group_size_m |-> group_size_m,
         pid_m |-> first_pid_m + (pid % group_size_m),
         pid_n |-> (pid % num_pid_in_group) \div group_size_m]

\* the grouped mapping of a program id to the block of C it computes
GroupedPid(pid, m, n, meta) ==
    LET num_pid_m == cdiv(m, meta.BLOCK_SIZE_M)
        num_pid_n == cdiv(n, meta.BLOCK_SIZE_N)
        num_pid_in_group == meta.GROUP_SIZE_M * num_pid_n
        group_id == pid \div num_pid_in_group
        first_pid_m == group_id * meta.GROUP_SIZE_M
        group_size_m == Min(num_pid_m - first_pid_m, meta.GROUP_SIZE_M)
    IN  [num_pid_m |-> num_pid_m, num_pid_n |-> num_pid_n,
         first_pid_m |-> first_pid_m, group_size_m |-> group_size_m,
         pid_m |-> IF group_size_m >= 1 THEN first_pid_m + (pid % group_size_m)
                   ELSE -1,
         pid_n |-> IF group_size_m >= 1
                   THEN (pid % num_pid_in_group) \div group_size_m ELSE -1]

\* grid = lambda META: (cdiv(M, META['BLOCK_SIZE_M']) * cdiv(N, META['BLOCK_SIZE_N']), )
matmul_grid(m, n, meta) == cdiv(m, meta.BLOCK_SIZE_M) * cdiv(n, meta.BLOCK_SIZE_N)

\* the bounds of the matmul launches
\* largest M and N (the unit test uses 512)
MaxDim == 2
\* largest K (the unit test uses 512)
MaxK == 3
\* largest BLOCK_SIZE_M, BLOCK_SIZE_N and BLOCK_SIZE_K (the listed ones: 32 .. 256)
MaxTile == 2
\* largest GROUP_SIZE_M (the listed ones: 8)
MaxGroup == 2
\* largest grid whose programs are interleaved
MaxPrograms == 4

\* the tile configurations the launches of the model run with
TileConfigs ==
    [BLOCK_SIZE_M : 1 .. MaxTile, BLOCK_SIZE_N : 1 .. MaxTile,
     BLOCK_SIZE_K : 1 .. MaxTile, GROUP_SIZE_M : 1 .. MaxGroup]

NoConfig == [BLOCK_SIZE_M |-> 1, BLOCK_SIZE_N |-> 1, BLOCK_SIZE_K |-> 1,
             GROUP_SIZE_M |-> 1]


\* a program's local variables before it starts. Beside the kernel's own
\* (pid_m, pid_n, a_block_ptr, b_block_ptr, accumulator, k) a program
\* records what its K loop did: a_ptrs and b_ptrs list the block pointers each
\* iteration loaded through, k_loaded the columns k of A read in order, a_pads
\* and b_pads the masked lanes' values, a_reads and b_reads the elements read
IdleProgram ==
    [pid_m |-> 0, pid_n |-> 0, a_block_ptr |-> NoPtr, b_block_ptr |-> NoPtr,
     accumulator |-> <<>>, k |-> 0,
     a_ptrs |-> <<>>, b_ptrs |-> <<>>, k_loaded |-> <<>>,
     a_pads |-> {}, b_pads |-> {}, a_reads |-> {}, b_reads |-> {}]

\* the asserts with the contiguity checks ahead of the dimension check
matmul_assert_contiguity_first(ta, tb) ==
    IF ~is_contiguous(ta) THEN "Matrix A must be contiguous"
    ELSE IF ~is_contiguous(tb) THEN "Matrix B must be contiguous"
    ELSE IF ta.shape[2] # tb.shape[1] THEN "Incompatible dimensions"
    ELSE ""

\* the asserts of matmul, in order: the message of the first that fails, or ""
matmul_assert(ta, tb) ==
    IF ta.shape[2] # tb.shape[1] THEN "Incompatible dimensions"
    ELSE IF ~is_contiguous(ta) THEN "Matrix A must be contiguous"
    ELSE IF ~is_contiguous(tb) THEN "Matrix B must be contiguous"
    ELSE ""

\* matmul(a, b) when an assert fails: the AssertionError leaves the function
MatmulAssertFails ==
    /\ notebook = "block_pointer"
    /\ mm_state = "call"
    /\ matmul_assert(a, b) # ""
    /\ error' = matmul_assert(a, b)
    /\ mm_state' = "failed"
    /\ UNCHANGED <<a, b, c, c_empty, M, N, K, META, mm_pc, prog, c_stores>>
    /\ UNCHANGED <<notebook, asin_vars, pid_map, at_vars>>

\* matmul(a, b) when the asserts pass: allocate c and launch the grid with the
\* configuration the autotuner hands to the grid lambda and to the kernel
MatmulLaunch ==
    /\ notebook = "block_pointer"
    /\ mm_state = "call"
    /\ matmul_assert(a, b) = ""
    /\ M' = a.shape[1]
    /\ K' = b.shape[1]
    /\ N' = b.shape[2]
    /\ \E g \in StaleFills : c' = torch_empty(a.shape[1], b.shape[2], g)
    /\ c_empty' = c'
    /\ \E meta \in TileConfigs :
          /\ matmul_grid(a.shape[1], b.shape[2], meta) <= MaxPrograms
          /\ META' = meta
          /\ mm_pc' = [p \in 0 .. matmul_grid(a.shape[1], b.shape[2], meta) - 1
                          |-> "start"]
          /\ prog' = [p \in 0 .. matmul_grid(a.shape[1], b.shape[2], meta) - 1
                          |-> IdleProgram]
    /\ mm_state' = "launched"
    /\ UNCHANGED <<a, b, error, c_stores>>
    /\ UNCHANGED <<notebook, asin_vars, pid_map, at_vars>>

\* the kernel up to the K loop: map pid to its block, make the block pointers
\* of A and B, zero the accumulator
KernelStart(pid) ==
    LET g == GroupedPid(pid, M, N, META)
    IN  [IdleProgram EXCEPT
            !.pid_m = g.pid_m, !.pid_n = g.pid_n,
            !.a_block_ptr = make_block_ptr("a", <<M, K>>, a.strides,
                 <<g.pid_m * META.BLOCK_SIZE_M, 0>>,
                 <<META.BLOCK_SIZE_M, META.BLOCK_SIZE_K>>, <<1, 0>>),
            !.b_block_ptr = make_block_ptr("b", <<K, N>>, b.strides,
                 <<0, g.pid_n * META.BLOCK_SIZE_N>>,
                 <<META.BLOCK_SIZE_K, META.BLOCK_SIZE_N>>, <<1, 0>>),
            !.accumulator = zeros(META.BLOCK_SIZE_M, META.BLOCK_SIZE_N)]

\* the columns of A that the load of one iteration reads, in order
LoadedK(ptr, boundary_check) ==
    LET cols == {cc[2] : cc \in Touched(ptr, boundary_check)}
    IN  [i \in 1 .. Cardinality(cols) |-> ptr.offsets[2] + i - 1]

\* the values that the lanes outside the parent tensor got
Pads(ptr, blk) ==
    {blk[l] : l \in {l \in Lanes(ptr) : ~InBounds(ptr, {0, 1}, l)}}

\* A's pointer advanced along the rows instead of the columns
advance_a_rows(ptr, meta) == advance(ptr, <<meta.BLOCK_SIZE_K, 0>>)

\* the pointer arithmetic at the end of an iteration of the K loop
advance_a(ptr, meta) == advance(ptr, <<0, meta.BLOCK_SIZE_K>>)
advance_b(ptr, meta) == advance(ptr, <<meta.BLOCK_SIZE_K, 0>>)

\* one iteration of `for k in range(0, K, BLOCK_SIZE_K)`
KernelLoopBody(me) ==
    LET blk_a == load(me.a_block_ptr, LoadCheck, a.data)
        blk_b == load(me.b_block_ptr, LoadCheck, b.data)
        prod == dot(blk_a, blk_b, META.BLOCK_SIZE_M, META.BLOCK_SIZE_N,
                    META.BLOCK_SIZE_K)
    IN  [me EXCEPT
            !.accumulator = [lane \in DOMAIN me.accumulator |->
                                me.accumulator[lane] + prod[lane]],
            !.a_block_ptr = advance_a(me.a_block_ptr, META),
            !.b_block_ptr = advance_b(me.b_block_ptr, META),
            !.k = me.k + META.BLOCK_SIZE_K,
            !.a_ptrs = Append(me.a_ptrs, me.a_block_ptr),
            !.b_ptrs = Append(me.b_ptrs, me.b_block_ptr),
            !.k_loaded = me.k_loaded \o LoadedK(me.a_block_ptr, LoadCheck),
            !.a_pads = me.a_pads \cup Pads(me.a_block_ptr, blk_a),
            !.b_pads = me.b_pads \cup Pads(me.b_block_ptr, blk_b),
            !.a_reads = me.a_reads \cup Touched(me.a_block_ptr, LoadCheck),
            !.b_reads = me.b_reads \cup Touched(me.b_block_ptr, LoadCheck)]

RECURSIVE KernelLoopFloor(_)
\* a loop over the full K blocks only: range(0, K // BLOCK_SIZE_K)
KernelLoopFloor(me) ==
    IF me.k + META.BLOCK_SIZE_K <= K THEN KernelLoopFloor(KernelLoopBody(me)) ELSE me

RECURSIVE KernelLoop(_)
\* for k in range(0, K, BLOCK_SIZE_K): ...
KernelLoop(me) == IF me.k < K THEN KernelLoop(KernelLoopBody(me)) ELSE me

\* a program computes its block: it reads A and B only, into its own variables
KernelCompute(pid) ==
    /\ notebook = "block_pointer"
    /\ mm_state = "launched"
    /\ mm_pc[pid] = "start"
    /\ prog' = [prog EXCEPT ![pid] = KernelLoop(KernelStart(pid))]
    /\ mm_pc' = [mm_pc EXCEPT ![pid] = "computed"]
    /\ UNCHANGED <<a, b, c, c_empty, mm_state, error, M, N, K, META, c_stores>>
    /\ UNCHANGED <<notebook, asin_vars, pid_map, at_vars>>

\* an output block pointer that ignores pid_n
c_block_ptr_column0(me) ==
    make_block_ptr("c", <<M, N>>, c.strides,
                   <<me.pid_m * META.BLOCK_SIZE_M, 0>>,
                   <<META.BLOCK_SIZE_M, META.BLOCK_SIZE_N>>, <<1, 0>>)

\* the block pointer of the output block
c_block_ptr(me) ==
    make_block_ptr("c", <<M, N>>, c.strides,
                   <<me.pid_m * META.BLOCK_SIZE_M, me.pid_n * META.BLOCK_SIZE_N>>,
                   <<META.BLOCK_SIZE_M, META.BLOCK_SIZE_N>>, <<1, 0>>)

\* after the loop: c = accumulator.to(tl.float16) and the boundary-checked store
KernelStore(pid) ==
    /\ notebook = "block_pointer"
    /\ mm_state = "launched"
    /\ mm_pc[pid] = "computed"
    /\ LET me == prog[pid]
           value == [lane \in DOMAIN me.accumulator |->
                        to_float16(me.accumulator[lane])]
       IN  /\ c' = [c EXCEPT !.data = store(c_block_ptr(me), value, StoreCheck, c.data)]
           /\ c_stores' = c_stores \cup
                 {<<pid, cc[1], cc[2]>> : cc \in Touched(c_block_ptr(me), StoreCheck)}
    /\ mm_pc' = [mm_pc EXCEPT ![pid] = "done"]
    /\ UNCHANGED <<a, b, c_empty, mm_state, error, M, N, K, META, prog>>
    /\ UNCHANGED <<notebook, asin_vars, pid_map, at_vars>>

\* return c: the caller reads c once every program of the launch has finished
MatmulReturn ==
    /\ notebook = "block_pointer"
    /\ mm_state = "launched"
    /\ \A p \in DOMAIN mm_pc : mm_pc[p] = "done"
    /\ mm_state' = "returned"
    /\ UNCHANGED <<a, b, c, c_empty, error, M, N, K, META, mm_pc, prog, c_stores>>
    /\ UNCHANGED <<notebook, asin_vars, pid_map, at_vars>>

\* a call matmul(a, b): the arguments are dense tensors, row-major or transposed views
MatmulInit ==
    /\ \E seed \in Seeds :
          /\ \E rows \in 0 .. MaxDim, cols \in 0 .. MaxK,
                layout \in {"row_major", "transposed"} :
                a = TensorA(rows, cols, layout, seed)
          /\ \E rows \in 0 .. MaxK, cols \in 0 .. MaxDim,
                layout \in {"row_major", "transposed"} :
                b = TensorB(rows, cols, layout, seed)
    /\ c = NoTensor
    /\ c_empty = NoTensor
    /\ mm_state = "call"
    /\ error = ""
    /\ M = 0 /\ N = 0 /\ K = 0
    /\ META = NoConfig
    /\ mm_pc = <<>>
    /\ prog = <<>>
    /\ c_stores = {}

\* the block-pointer notebook is not run
MatmulOff ==
    /\ a = NoTensor /\ b = NoTensor /\ c = NoTensor /\ c_empty = NoTensor
    /\ mm_state = "off"
    /\ error = ""
    /\ M = 0 /\ N = 0 /\ K = 0
    /\ META = NoConfig
    /\ mm_pc = <<>>
    /\ prog = <<>>
    /\ c_stores = {}

\* the libdevice notebook is not run
AsinOff ==
    /\ n_elements = 0
    /\ BLOCK_SIZE = 1
    /\ x = <<>>
    /\ output_triton = <<>>
    /\ run = 0
    /\ output_first = <<>>
    /\ asin_pc = <<>>
    /\ asin_x = <<>>
    /\ x_loads = {}
    /\ y_stores = {}

(* ------------------- the grouped ordering on its own ------------------ *)
\* largest M and N of a grid whose program ids are mapped
MaxGridDim == 6
\* largest GROUP_SIZE_M of such a grid
MaxGridGroup == 4


\* the kernel's first lines, for the next program id of the grid
MapPid ==
    /\ notebook = "grouped_ordering"
    /\ Len(pid_map) < matmul_grid(M, N, META)
    /\ pid_map' = Append(pid_map, GroupedPid(Len(pid_map), M, N, META))
    /\ UNCHANGED <<M, N, META>>
    /\ UNCHANGED <<notebook, asin_vars, at_vars, a, b, c, c_empty, mm_state, error, K,
                   mm_pc, prog, c_stores>>

\* a launch of a grid for an (M, N) output with some tile configuration
PidMapInit ==
    /\ M \in 0 .. MaxGridDim
    /\ N \in 0 .. MaxGridDim
    /\ META \in [BLOCK_SIZE_M : 1 .. MaxTile, BLOCK_SIZE_N : 1 .. MaxTile,
                 BLOCK_SIZE_K : {1}, GROUP_SIZE_M : 1 .. MaxGridGroup]
    /\ pid_map = <<>>

(* ------------------------------ autotune ------------------------------ *)
\* the configs of the triton.autotune decorator, in order
Configs ==
    << [BLOCK_SIZE_M |-> 128, BLOCK_SIZE_N |-> 256, BLOCK_SIZE_K |-> 64,
        GROUP_SIZE_M |-> 8, num_stages |-> 4, num_warps |-> 4],
       [BLOCK_SIZE_M |-> 64, BLOCK_SIZE_N |-> 256, BLOCK_SIZE_K |-> 32,
        GROUP_SIZE_M |-> 8, num_stages |-> 4, num_warps |-> 4],
       [BLOCK_SIZE_M |-> 128, BLOCK_SIZE_N |-> 128, BLOCK_SIZE_K |-> 32,
        GROUP_SIZE_M |-> 8, num_stages |-> 4, num_warps |-> 4],
       [BLOCK_SIZE_M |-> 128, BLOCK_SIZE_N |-> 64, BLOCK_SIZE_K |-> 32,
        GROUP_SIZE_M |-> 8, num_stages |-> 4, num_warps |-> 4],
       [BLOCK_SIZE_M |-> 64, BLOCK_SIZE_N |-> 128, BLOCK_SIZE_K |-> 32,
        GROUP_SIZE_M |-> 8, num_stages |-> 4, num_warps |-> 4],
       [BLOCK_SIZE_M |-> 128, BLOCK_SIZE_N |-> 32, BLOCK_SIZE_K |-> 32,
        GROUP_SIZE_M |-> 8, num_stages |-> 4, num_warps |-> 4],
       [BLOCK_SIZE_M |-> 64, BLOCK_SIZE_N |-> 32, BLOCK_SIZE_K |-> 32,
        GROUP_SIZE_M |-> 8, num_stages |-> 5, num_warps |-> 2],
       [BLOCK_SIZE_M |-> 32, BLOCK_SIZE_N |-> 64, BLOCK_SIZE_K |-> 32,
        GROUP_SIZE_M |-> 8, num_stages |-> 5, num_warps |-> 2] >>

\* the matmul calls of a session: at most MaxCalls calls
MaxCalls == 3
\* the M of a call takes MaxShapes values from the unit test's 512 downwards
MaxShapes == 2
\* the shapes (M, N, K) of the calls; 512 is the unit test's size
Shapes == {512 - 100 * i : i \in 0 .. MaxShapes - 1} \X {512, 100} \X {512}


\* key=['M', 'N', 'K']: the cache key of a call
autotune_key(m, n, k) == <<m, n, k>>

\* `key not in self.cache`, negated
in_cache(cch, key) == cch[key] # 0

\* no launch yet
NoLaunch == [shape |-> <<0, 0, 0>>, config |-> 0, grid |-> 0, kernel_blocks |-> 0,
             hit |-> FALSE, prev |-> <<0, 0, 0>>]

\* a launch whose grid is computed from the first listed config, whatever the
\* autotuner selected
autotuned_launch_fixed_grid(m, n, k, cfg) ==
    [shape |-> <<m, n, k>>, config |-> cfg,
     grid |-> matmul_grid(m, n, Configs[1]),
     kernel_blocks |-> GroupedPid(0, m, n, Configs[cfg]).num_pid_m
                          * GroupedPid(0, m, n, Configs[cfg]).num_pid_n,
     hit |-> FALSE, prev |-> <<0, 0, 0>>]

\* a launch through the autotuner: the grid lambda is called with the kwargs of
\* the config, and the kernel is compiled with the same kwargs as constexprs;
\* grid is what the lambda returns, kernel_blocks the num_pid_m * num_pid_n the
\* kernel computes
autotuned_launch(m, n, k, cfg) ==
    [shape |-> <<m, n, k>>, config |-> cfg,
     grid |-> matmul_grid(m, n, Configs[cfg]),
     kernel_blocks |-> GroupedPid(0, m, n, Configs[cfg]).num_pid_m
                          * GroupedPid(0, m, n, Configs[cfg]).num_pid_n,
     hit |-> FALSE, prev |-> <<0, 0, 0>>]

\* matmul with a key the cache does not hold: every config is benchmarked and
\* the fastest, whichever it is, is cached and launched
AutotuneMiss ==
    /\ notebook = "autotune"
    /\ calls < MaxCalls
    /\ \E shape \in Shapes, best \in 1 .. Len(Configs) :
          LET key == autotune_key(shape[1], shape[2], shape[3])
          IN  /\ ~in_cache(cache, key)
              /\ cache' = [cache EXCEPT ![key] = best]
              /\ searches' = [searches EXCEPT ![shape] = @ + 1]
              /\ first_choice' = [first_choice EXCEPT ![shape] =
                                     IF @ = 0 THEN best ELSE @]
              /\ launch' = [autotuned_launch(shape[1], shape[2], shape[3], best)
                               EXCEPT !.prev = launch.shape]
    /\ calls' = calls + 1
    /\ UNCHANGED <<notebook, asin_vars, mm_vars, pid_map>>

\* matmul with a key the cache holds: the cached config is launched
AutotuneHit ==
    /\ notebook = "autotune"
    /\ calls < MaxCalls
    /\ \E shape \in Shapes :
          LET key == autotune_key(shape[1], shape[2], shape[3])
          IN  /\ in_cache(cache, key)
              /\ launch' = [autotuned_launch(shape[1], shape[2], shape[3], cache[key])
                               EXCEPT !.hit = TRUE, !.prev = launch.shape]
    /\ calls' = calls + 1
    /\ UNCHANGED <<cache, searches, first_choice>>
    /\ UNCHANGED <<notebook, asin_vars, mm_vars, pid_map>>

Keys == {autotune_key(s[1], s[2], s[3]) : s \in Shapes}

\* a fresh kernel object: nothing cached
AutotuneInit ==
    /\ cache = [key \in Keys |-> 0]
    /\ searches = [shape \in Shapes |-> 0]
    /\ first_choice = [shape \in Shapes |-> 0]
    /\ launch = NoLaunch
    /\ calls = 0

AutotuneOff ==
    /\ cache = <<>>
    /\ searches = <<>>
    /\ first_choice = <<>>
    /\ launch = NoLaunch
    /\ calls = 0

(* --------------------------- specifications --------------------------- *)
\* the two notebooks: their kernels run as grids of interleaved programs
Init ==
    \/ notebook = "libdevice" /\ AsinInit /\ MatmulOff /\ pid_map = <<>> /\ AutotuneOff
    \/ notebook = "block_pointer" /\ MatmulInit /\ AsinOff /\ pid_map = <<>> /\ AutotuneOff

Next ==
    \/ \E pid \in DOMAIN asin_pc : AsinLoad(pid)
    \/ \E pid \in DOMAIN asin_pc : AsinStore(pid)
    \/ AsinSecondRun
    \/ MatmulAssertFails
    \/ MatmulLaunch
    \/ \E pid \in DOMAIN mm_pc : KernelCompute(pid)
    \/ \E pid \in DOMAIN mm_pc : KernelStore(pid)
    \/ MatmulReturn

Spec == Init /\ [][Next]_vars

\* the grouped ordering of the grids of larger outputs
InitPidMap ==
    /\ notebook = "grouped_ordering"
    /\ AsinOff /\ AutotuneOff
    /\ a = NoTensor /\ b = NoTensor /\ c = NoTensor /\ c_empty = NoTensor
    /\ mm_state = "off" /\ error = "" /\ K = 0
    /\ mm_pc = <<>> /\ prog = <<>> /\ c_stores = {}
    /\ PidMapInit

NextPidMap == MapPid

SpecPidMap == InitPidMap /\ [][NextPidMap]_vars

\* the autotuner across the matmul calls of a session
InitAutotune ==
    /\ notebook = "autotune"
    /\ AsinOff /\ MatmulOff /\ pid_map = <<>>
    /\ AutotuneInit

NextAutotune ==
    \/ AutotuneMiss
    \/ AutotuneHit

SpecAutotune == InitAutotune /\ [][NextAutotune]_vars

(* ------------------------------- claims ------------------------------- *)
\* the launch of the block-pointer notebook has returned
Returned == notebook = "block_pointer" /\ mm_state = "returned"

\* a launch of two programs whose blocks stick out of the matrices along N and
\* K, and whose K loop runs a full block before its partial one
RaggedLaunch ==
    /\ M = 2 /\ N = 1 /\ K = 3
    /\ META.BLOCK_SIZE_M = 1 /\ META.BLOCK_SIZE_N = 2 /\ META.BLOCK_SIZE_K = 2

C2_AsinElementwise ==
    (notebook = "libdevice" /\ AsinLaunchDone) =>
        \A i \in 0 .. n_elements - 1 : output_triton[i] = asin(x[i])

C2_Witness ==
    /\ notebook = "libdevice" /\ AsinLaunchDone
    /\ n_elements = 3 /\ BLOCK_SIZE = 2 /\ output_triton[2] = 5236

\* C3: two programs of a launch never store to the same output element, an
\* element a program stored lies in its own block and keeps that program's
\* value, and so the output of a finished launch is the same whatever the
\* order the programs ran in
C3_DisjointWrites ==
    /\ \A s \in y_stores, t \in y_stores : s[2] = t[2] => s[1] = t[1]
    /\ \A s \in c_stores, t \in c_stores :
          (s[2] = t[2] /\ s[3] = t[3]) => s[1] = t[1]
    /\ \A s \in y_stores : output_triton[s[2]] = asin(x[s[2]])
    /\ \A s \in c_stores :
          LET lane == <<s[2] - prog[s[1]].pid_m * META.BLOCK_SIZE_M,
                        s[3] - prog[s[1]].pid_n * META.BLOCK_SIZE_N>>
          IN  /\ lane \in DOMAIN prog[s[1]].accumulator
              /\ At(c, s[2], s[3]) = to_float16(prog[s[1]].accumulator[lane])
    /\ (notebook = "libdevice" /\ AsinLaunchDone) =>
          output_triton = [i \in 0 .. n_elements - 1 |-> asin(x[i])]
    /\ Returned =>
          c.data = [addr \in 0 .. M * N - 1 |->
                       torch_matmul(a, b, addr \div N, addr % N)]

\* the last program of a four-program grid has stored before the first started
C3_Witness ==
    /\ notebook = "block_pointer" /\ mm_state = "launched"
    /\ DOMAIN mm_pc = 0 .. 3
    /\ mm_pc[0] = "start" /\ mm_pc[3] = "done" /\ mm_pc[1] = "computed"

\* C4: matmul fails with the message of the first failing check (dimensions,
\* then A contiguous, then B contiguous), a failed call allocates no output and
\* launches no kernel, and a kernel is launched only when all three checks pass
C4_PreconditionsFirst ==
    /\ (notebook = "block_pointer" /\ mm_state = "failed") =>
          /\ a.shape[2] # b.shape[1] => error = "Incompatible dimensions"
          /\ (a.shape[2] = b.shape[1] /\ ~is_contiguous(a))
                => error = "Matrix A must be contiguous"
          /\ (a.shape[2] = b.shape[1] /\ is_contiguous(a) /\ ~is_contiguous(b))
                => error = "Matrix B must be contiguous"
          /\ ~(a.shape[2] = b.shape[1] /\ is_contiguous(a) /\ is_contiguous(b))
          /\ c = NoTensor /\ DOMAIN mm_pc = {} /\ c_stores = {}
    /\ (notebook = "block_pointer" /\ mm_state \in {"launched", "returned"}) =>
          /\ a.shape[2] = b.shape[1] /\ is_contiguous(a) /\ is_contiguous(b)
          /\ error = ""

\* the dimensions mismatch and neither matrix is contiguous: the first check decides
C4_Witness ==
    /\ notebook = "block_pointer" /\ mm_state = "failed"
    /\ error = "Incompatible dimensions"
    /\ ~is_contiguous(a) /\ ~is_contiguous(b)

\* C5: asin_kernel loads from x and stores to y only at offsets below
\* n_elements: the lanes of the last, partial block at or beyond n_elements
\* touch nothing, and no program ever holds a value from outside x
C5_AsinMasked ==
    /\ \A s \in x_loads \cup y_stores : 0 <= s[2] /\ s[2] < n_elements
    /\ \A p \in DOMAIN asin_pc : \A l \in DOMAIN asin_x[p] :
          /\ asin_x[p][l] # OutOfBuffer
          /\ asin_offset(p, l, BLOCK_SIZE) >= n_elements =>
                <<p, asin_offset(p, l, BLOCK_SIZE)>> \notin x_loads \cup y_stores
    /\ DOMAIN output_triton = 0 .. n_elements - 1

\* the program of the partial block has stored: offset 3 of 3 elements is masked
C5_Witness ==
    /\ notebook = "libdevice" /\ n_elements = 3 /\ BLOCK_SIZE = 2
    /\ asin_pc[1] = "done" /\ <<1, 2>> \in y_stores

C7_GroupedPidBijection ==
    /\ \A i \in 1 .. Len(pid_map) :
          /\ pid_map[i].group_size_m >= 1
          /\ pid_map[i].first_pid_m <= pid_map[i].pid_m
          /\ pid_map[i].pid_m < pid_map[i].first_pid_m + pid_map[i].group_size_m
          /\ pid_map[i].pid_m < cdiv(M, META.BLOCK_SIZE_M)
          /\ 0 <= pid_map[i].pid_n
          /\ pid_map[i].pid_n < cdiv(N, META.BLOCK_SIZE_N)
    /\ \A i \in 1 .. Len(pid_map), j \in 1 .. Len(pid_map) :
          (pid_map[i].pid_m = pid_map[j].pid_m /\ pid_map[i].pid_n = pid_map[j].pid_n)
             => i = j
    /\ (notebook = "grouped_ordering"
        /\ Len(pid_map) = cdiv(M, META.BLOCK_SIZE_M) * cdiv(N, META.BLOCK_SIZE_N)) =>
          {<<pid_map[i].pid_m, pid_map[i].pid_n>> : i \in 1 .. Len(pid_map)}
             = (0 .. cdiv(M, META.BLOCK_SIZE_M) - 1) \X (0 .. cdiv(N, META.BLOCK_SIZE_N) - 1)

\* a whole grid of 5 x 2 blocks in groups of 3: the last group holds 2 rows
C7_Witness ==
    /\ notebook = "grouped_ordering"
    /\ M = 5 /\ N = 4 /\ META.BLOCK_SIZE_M = 1 /\ META.BLOCK_SIZE_N = 2
    /\ META.GROUP_SIZE_M = 3
    /\ Len(pid_map) = 10
    /\ pid_map[10].group_size_m = 2

\* C8: the t-th iteration of the K loop (from 0) loads A through the pointer
\* made before the loop with only its offsets changed, to
\* (pid_m * BLOCK_SIZE_M, t * BLOCK_SIZE_K), and B through its pointer at
\* (t * BLOCK_SIZE_K, pid_n * BLOCK_SIZE_N); the loop runs ceil(K / BLOCK_SIZE_K)
\* times and its loads cover every k of [0, K) exactly once
C8_AdvanceOnlyOffsets ==
    \A p \in DOMAIN mm_pc : mm_pc[p] # "start" =>
        LET me == prog[p]
        IN  /\ Len(me.a_ptrs) = cdiv(K, META.BLOCK_SIZE_K)
            /\ Len(me.b_ptrs) = cdiv(K, META.BLOCK_SIZE_K)
            /\ \A t \in 0 .. Len(me.a_ptrs) - 1 :
                  /\ me.a_ptrs[t + 1] =
                        [base |-> "a", shape |-> <<M, K>>, strides |-> a.strides,
                         offsets |-> <<me.pid_m * META.BLOCK_SIZE_M,
                                       t * META.BLOCK_SIZE_K>>,
                         block_shape |-> <<META.BLOCK_SIZE_M, META.BLOCK_SIZE_K>>,
                         order |-> <<1, 0>>]
                  /\ me.b_ptrs[t + 1] =
                        [base |-> "b", shape |-> <<K, N>>, strides |-> b.strides,
                         offsets |-> <<t * META.BLOCK_SIZE_K,
                                       me.pid_n * META.BLOCK_SIZE_N>>,
                         block_shape |-> <<META.BLOCK_SIZE_K, META.BLOCK_SIZE_N>>,
                         order |-> <<1, 0>>]
            /\ me.k_loaded = [i \in 1 .. K |-> i - 1]

\* a program has run two iterations, a full K block and a partial one
C8_Witness ==
    /\ notebook = "block_pointer" /\ mm_state = "launched"
    /\ K = 3 /\ META.BLOCK_SIZE_K = 2
    /\ \E p \in DOMAIN mm_pc :
          /\ mm_pc[p] = "computed" /\ Len(prog[p].a_ptrs) = 2
          /\ prog[p].pid_m = 1 /\ prog[p].a_ptrs[2].offsets = <<1, 2>>

C10_OutputIndependentOfInitial ==
    /\ (notebook = "libdevice" /\ AsinLaunchDone) =>
          {s[2] : s \in y_stores} = 0 .. n_elements - 1
    /\ (notebook = "libdevice" /\ AsinLaunchDone /\ run = 2) =>
          output_triton = output_first
    /\ Returned =>
          /\ {<<s[2], s[3]>> : s \in c_stores} = (0 .. M - 1) \X (0 .. N - 1)
          /\ \A addr \in DOMAIN c.data : c.data[addr] \notin StaleFills

\* the second launch has finished on a buffer whose last block is partial
C10_Witness ==
    /\ notebook = "libdevice" /\ AsinLaunchDone /\ run = 2
    /\ n_elements = 3 /\ BLOCK_SIZE = 2
    /\ output_first[2] # 0
====
